---- MODULE Spec2Model ----
(***************************************************************************)
(* AeolusDT (wind_farm_twin): the Bronze -> Silver -> Gold pipeline.       *)
(*                                                                         *)
(* A dataset (Bronze, Silver, each Gold rollup) is the set of parquet      *)
(* files below its root: a function from a file path to the rows of that   *)
(* file.  A path is the tuple of hive partition values followed by the     *)
(* base name of the file.  Timestamps are integers counted in ticks;       *)
(* identifiers (sim_run_id, farm_id, turbine_id) are integers ordered as   *)
(* their strings are.                                                      *)
(***************************************************************************)
EXTENDS Integers, Sequences, FiniteSets, Bags, TLC

VARIABLES bronze, silver, hourly_energy, farm_kpis, store, exists, last,
          pending, ingested, wind

vars ==
    <<bronze, silver, hourly_energy, farm_kpis, store, exists, last, pending,
      ingested, wind>>

(***************************************************************************)
(* Bounds of the model.                                                    *)
(***************************************************************************)
MaxTick == 2        \* event_time of an input row is in 0..MaxTick
TicksPerMs == 1     \* ticks in one millisecond
MsPerHour == 2      \* milliseconds in one hour bucket (scaled down)
HoursPerDay == 2    \* hour buckets in one date partition (scaled down)
MaxBatch == 2       \* rows in one input dataframe
MaxUuid == 2        \* uuid4 file names drawn in one behaviour

(***************************************************************************)
(* Values of the telemetry columns.                                        *)
(***************************************************************************)
NaN == -999999
FarmIds == {1}
SimRunIds == {1, 2}
TurbineIds == {1}
EventTimes == 0..MaxTick
PowerValues == {2000}
WindSpeedValues == {12}
FreeWindValues == {12}
WindDirValues == {220}
RotorSpeedValues == {18}
YawValues == {220}
StatusValues == {"RUNNING"}
SourceValues == {"simulator"}

RequiredColumns == {"event_time", "farm_id", "sim_run_id", "ingest_time"}
TelemetryColumns ==
    {"event_time", "farm_id", "turbine_id", "wind_speed_free_mps",
     "wind_speed_mps", "wind_dir_deg", "power_kw", "rotor_speed_rpm",
     "yaw_deg", "status", "sim_run_id", "ingest_time", "source"}

\* The rows of TelemetryGenerator.generate, before ingest_time is stamped.
Records ==
    [event_time : EventTimes, farm_id : FarmIds, turbine_id : TurbineIds,
     wind_speed_free_mps : FreeWindValues, wind_speed_mps : WindSpeedValues,
     wind_dir_deg : WindDirValues, power_kw : PowerValues,
     rotor_speed_rpm : RotorSpeedValues, yaw_deg : YawValues,
     status : StatusValues, sim_run_id : SimRunIds, source : SourceValues]

RECURSIVE SeqsUpTo(_, _)
SeqsUpTo(S, n) ==
    IF n = 0 THEN {<<>>}
    ELSE LET shorter == SeqsUpTo(S, n - 1)
         IN shorter \cup
            {Append(s, x) : s \in {t \in shorter : Len(t) = n - 1}, x \in S}

\* A dataframe: its column names and its rows.  The dataframes offered to
\* the Bronze writer: every well-formed one of up to MaxBatch rows, the
\* empty one, and one-row ones that lack a required column.
Batches ==
    [columns : {TelemetryColumns}, rows : SeqsUpTo(Records, MaxBatch)]
    \cup [columns : {TelemetryColumns \ {c} : c \in RequiredColumns},
          rows : SeqsUpTo(Records, 1)]

\* The dataframes of TelemetryGenerator.generate: non-empty, every column,
\* every row with the generator's sim_run_id and the farm's farm_id.
Generated ==
    {df \in [columns : {TelemetryColumns},
             rows : SeqsUpTo(Records, MaxBatch) \ {<<>>}] :
        \A i \in DOMAIN df.rows :
            /\ df.rows[i].sim_run_id = df.rows[1].sim_run_id
            /\ df.rows[i].farm_id = df.rows[1].farm_id}

(***************************************************************************)
(* Time: dt.floor("ms"), dt.floor("h"), strftime("%Y-%m-%d").              *)
(***************************************************************************)
TicksPerHour == TicksPerMs * MsPerHour
TicksPerDay == TicksPerHour * HoursPerDay

FloorTo(t, unit) == t - (t % unit)
FloorMs(t) == FloorTo(t, TicksPerMs)
FloorHour(t) == FloorTo(t, TicksPerHour)
\* strftime renders a timestamp injectively on the unit it prints: the
\* rendered hour string is modelled by the hour it names, the date string
\* by the day it names.
HourKey(t) == FloorHour(t)
DateOf(t) == FloorTo(t, TicksPerDay)

\* sim_run_id + "|" + farm_id + "|" + hour_key
ProcessKey(r) == <<r.sim_run_id, r.farm_id, HourKey(r.event_time)>>

\* df["process_key"].unique()
ProcessKeys(table) == {ProcessKey(table[i]) : i \in DOMAIN table}

(***************************************************************************)
(* Sequences.                                                              *)
(***************************************************************************)
RECURSIVE LexLess(_, _)
LexLess(a, b) ==
    IF a = <<>> \/ b = <<>> THEN a = <<>> /\ b # <<>>
    ELSE IF Head(a) # Head(b) THEN Head(a) < Head(b)
    ELSE LexLess(Tail(a), Tail(b))

RECURSIVE Pick(_, _, _)
\* the elements of s at the indices of keep that are >= i, in order
Pick(s, keep, i) ==
    IF i > Len(s) THEN <<>>
    ELSE (IF i \in keep THEN <<s[i]>> ELSE <<>>) \o Pick(s, keep, i + 1)

\* df.loc[mask]: the elements of s that are in rows, in order
Filter(s, rows) == Pick(s, {i \in DOMAIN s : s[i] \in rows}, 1)

Range(s) == {s[i] : i \in DOMAIN s}

\* sorted(S) of a set of tuples
RECURSIVE SortedKeys(_)
SortedKeys(S) ==
    IF S = {} THEN <<>>
    ELSE LET k == CHOOSE x \in S : \A y \in S : x = y \/ LexLess(x, y)
         IN <<k>> \o SortedKeys(S \ {k})

(***************************************************************************)
(* The table store: pyarrow write_to_dataset and dataset(...).to_table().  *)
(***************************************************************************)
EmptyDataset == <<>>

\* the value of a partition column: "date" and "hour" are derived from
\* event_time, the others are telemetry columns
PartitionValue(r, col) ==
    CASE col = "date" -> DateOf(r.event_time)
      [] col = "hour" -> HourKey(r.event_time)
      [] OTHER -> r[col]

\* the partition directory of a row: one level per partition column
PartitionOf(partition_cols, r) ==
    [i \in DOMAIN partition_cols |-> PartitionValue(r, partition_cols[i])]

\* One file per partition directory present in the table, named by the
\* base name template with {i} = 0; existing_data_behavior =
\* "overwrite_or_ignore" leaves other files alone and replaces a file of
\* the same path.  done is the set of partitions whose file was completed
\* (all of them when the call returns normally).
WriteFiles(ds, table, partition_cols, basename, done) ==
    LET paths == {Append(p, basename) : p \in done}
        new == [q \in paths |->
                   Filter(table,
                          {r \in Range(table) :
                              Append(PartitionOf(partition_cols, r),
                                     basename) = q})]
    IN new @@ ds

PartitionsOf(table, partition_cols) ==
    {PartitionOf(partition_cols, table[i]) : i \in DOMAIN table}

WriteToDataset(ds, table, partition_cols, basename) ==
    WriteFiles(ds, table, partition_cols, basename,
               PartitionsOf(table, partition_cols))

RECURSIVE ReadFiles(_, _)
ReadFiles(ds, paths) ==
    IF paths = {} THEN <<>>
    ELSE LET p == CHOOSE x \in paths : \A y \in paths : x = y \/ LexLess(x, y)
         IN ds[p] \o ReadFiles(ds, paths \ {p})

\* Files are discovered sorted by path; the table is their concatenation.
ReadDataset(ds) == ReadFiles(ds, DOMAIN ds)

\* Path.exists() of a dataset root: made by mkdir(parents=True)
PathExists(root) == root \in exists

(***************************************************************************)
(* StateStore.                                                             *)
(***************************************************************************)
\* json.dump({"items": sorted(items)}, f, indent=2): the text of the file,
\* in the order it is written
JsonDump(items) ==
    LET sorted == SortedKeys(items)
    IN <<[tok |-> "open"]>>
       \o [i \in DOMAIN sorted |-> [tok |-> "item", key |-> sorted[i]]]
       \o <<[tok |-> "close"]>>

\* json.load accepts the text: it is complete
JsonValid(text) ==
    /\ Len(text) >= 2
    /\ text[1].tok = "open"
    /\ text[Len(text)].tok = "close"
    /\ \A i \in 2..(Len(text) - 1) : text[i].tok = "item"

\* load_set: the exception json.load raises on the file of name
LoadError(files, name) ==
    IF name \in DOMAIN files /\ ~JsonValid(files[name])
    THEN "JSONDecodeError" ELSE "ok"

\* load_set: set(data.get("items", [])) of a file json.load accepts, the
\* empty set when there is no file
LoadFrom(files, name) ==
    IF name \in DOMAIN files
    THEN {files[name][i].key : i \in 2..(Len(files[name]) - 1)}
    ELSE {}
LoadSet(name) == LoadFrom(store, name)

\* save_set stopped after n parts of the text: p.open("w") has emptied the
\* file, json.dump has written the first n parts
SaveSetStopped(name, items, n) ==
    (name :> SubSeq(JsonDump(items), 1, n)) @@ store

SaveSet(name, items) == SaveSetStopped(name, items, Len(JsonDump(items)))

(***************************************************************************)
(* What a caller observes of a call, and the history the properties read.  *)
(*   last     the last call: operation, exception raised ("ok" if none),   *)
(*            the number and the bucket keys of the rows a job handed to   *)
(*            the table store and the store completed, and for a Bronze    *)
(*            call whether the dataframe was non-empty and had the         *)
(*            required columns                                             *)
(*   pending  after a SilverJob.run that failed in or after its table      *)
(*            write (active): the Silver dataset a run without the failure *)
(*            would have left and the rows the failed run completed; after *)
(*            the run that succeeds next (retried): the same               *)
(*   ingested the bag of rows that successful Bronze writes were given     *)
(***************************************************************************)
WellFormed(df) == df.rows # <<>> /\ RequiredColumns \subseteq df.columns
CallResult(op, err, written, wellformed) ==
    [op |-> op, err |-> err, written |-> Len(written),
     keys |-> ProcessKeys(written), wellformed |-> wellformed]
NoPending ==
    [active |-> FALSE, retried |-> FALSE, silver |-> EmptyDataset,
     partial |-> 0]

RECURSIVE BagOfSeq(_)
BagOfSeq(s) ==
    IF s = <<>> THEN EmptyBag ELSE SetToBag({Head(s)}) (+) BagOfSeq(Tail(s))

BagOfDataset(ds) == BagOfSeq(ReadDataset(ds))

(***************************************************************************)
(* BronzeWriter.                                                           *)
(***************************************************************************)
\* partition_cols=["sim_run_id", "farm_id", "date", "hour"]
BronzePartition == <<"sim_run_id", "farm_id", "date", "hour">>

UsedUuids(ds) == {p[Len(p)] : p \in DOMAIN ds}
\* uuid4: a name no earlier write has used
FreshUuids(ds) == (1..MaxUuid) \ UsedUuids(ds)

\* the required-column check left out
WriteErrorEmptyOnly(df) == IF df.rows = <<>> THEN "ValueError" ELSE "ok"

\* BronzeWriter.write: the exception its checks raise, or "ok"
WriteError(df) ==
    IF df.rows = <<>> THEN "ValueError"
    ELSE IF RequiredColumns \ df.columns # {} THEN "ValueError"
    ELSE "ok"

\* "ingest_time": datetime.now(timezone.utc): the rows of a dataframe are
\* stamped when it is generated, later dataframes with later times
Clock == Cardinality(UsedUuids(bronze))
Stamp(rows) == [i \in DOMAIN rows |-> rows[i] @@ [ingest_time |-> Clock]]

NormalizeBronze(r) ==
    [r EXCEPT !.event_time = FloorMs(r.event_time),
              !.ingest_time = FloorMs(r.ingest_time)]

\* the table BronzeWriter.write builds from a dataframe's rows
BronzeTable(rows) == [i \in DOMAIN rows |-> NormalizeBronze(rows[i])]

\* one fixed file name for every write
BronzeBasenameFixed(uuid) == 0

\* unique_name = f"part-{uuid.uuid4().hex}.parquet"
BronzeBasename(uuid) == uuid

\* BronzeWriter.write of a valid dataframe
BronzeWrite(ds, rows, uuid) ==
    WriteToDataset(ds, BronzeTable(rows), BronzePartition,
                   BronzeBasename(uuid))

Write(df) ==
    IF WriteError(df) # "ok"
    THEN /\ last' = CallResult("write", WriteError(df), <<>>, WellFormed(df))
         /\ UNCHANGED <<bronze, silver, hourly_energy, farm_kpis, store,
                        exists, pending, ingested, wind>>
    ELSE \E uuid \in FreshUuids(bronze) :
         /\ bronze' = BronzeWrite(bronze, Stamp(df.rows), uuid)
         /\ ingested' =
                ingested (+) BagOfSeq(BronzeTable(Stamp(df.rows)))
         /\ exists' = exists \cup {"bronze"}
         /\ last' = CallResult("write", "ok", <<>>, WellFormed(df))
         /\ pending' = NoPending
         /\ UNCHANGED <<silver, hourly_energy, farm_kpis, store, wind>>

\* BronzeWriter.write of a valid dataframe whose write_to_dataset raises
\* after base_path.mkdir, having completed the files of done
WriteRaises(df) ==
    /\ WriteError(df) = "ok"
    /\ \E uuid \in FreshUuids(bronze) :
       \E done \in SUBSET PartitionsOf(BronzeTable(df.rows), BronzePartition) :
          bronze' = WriteFiles(bronze, BronzeTable(Stamp(df.rows)),
                               BronzePartition, BronzeBasename(uuid), done)
    /\ exists' = exists \cup {"bronze"}
    /\ last' = CallResult("write", "OSError", <<>>, WellFormed(df))
    /\ pending' = NoPending
    /\ UNCHANGED <<silver, hourly_energy, farm_kpis, store, ingested, wind>>

\* the (farm_id, hour) groups of write_hourly_chunks, in groupby order
ChunkKey(r) == <<r.farm_id, HourKey(FloorMs(r.event_time))>>

ChunkGroups(rows) == SortedKeys({ChunkKey(rows[i]) : i \in DOMAIN rows})

\* write_hourly_chunks: the exception raised before anything is written
ChunksError(df) ==
    IF df.rows = <<>> THEN "ValueError"
    ELSE IF "event_time" \notin df.columns \/ "farm_id" \notin df.columns
         THEN "KeyError"
    ELSE WriteError(df)

RECURSIVE ChunkWrites(_, _, _, _)
\* self.write(g) for each group, uuids[i] the name drawn by the i-th write
ChunkWrites(ds, rows, groups, uuids) ==
    IF groups = <<>> THEN ds
    ELSE LET g == Filter(rows, {r \in Range(rows) : ChunkKey(r) = Head(groups)})
         IN ChunkWrites(BronzeWrite(ds, g, Head(uuids)), rows,
                        Tail(groups), Tail(uuids))

InjectiveSeqs(S, n) ==
    {s \in [1..n -> S] : \A i, j \in 1..n : i # j => s[i] # s[j]}

WriteHourlyChunks(df) ==
    IF ChunksError(df) # "ok"
    THEN /\ last' = CallResult("write_hourly_chunks", ChunksError(df), <<>>,
                               WellFormed(df))
         /\ UNCHANGED <<bronze, silver, hourly_energy, farm_kpis, store,
                        exists, pending, ingested, wind>>
    ELSE LET groups == ChunkGroups(df.rows)
         IN \E uuids \in InjectiveSeqs(FreshUuids(bronze), Len(groups)) :
            /\ bronze' = ChunkWrites(bronze, Stamp(df.rows), groups, uuids)
            /\ ingested' =
                   ingested (+) BagOfSeq(BronzeTable(Stamp(df.rows)))
            /\ exists' = exists \cup {"bronze"}
            /\ last' = CallResult("write_hourly_chunks", "ok", <<>>,
                                  WellFormed(df))
            /\ pending' = NoPending
            /\ UNCHANGED <<silver, hourly_energy, farm_kpis, store, wind>>

(***************************************************************************)
(* SilverJob.                                                              *)
(***************************************************************************)
SilverStateName == "silver_processed_hours"

\* TelemetryConstraints, in the order _add_range_flags checks them
TelemetryConstraints ==
    << [col |-> "wind_speed_mps", lo |-> 0, hi |-> 60],
       [col |-> "wind_dir_deg", lo |-> 0, hi |-> 360],
       [col |-> "rotor_speed_rpm", lo |-> 0, hi |-> 30],
       [col |-> "yaw_deg", lo |-> 0, hi |-> 360],
       [col |-> "power_kw", lo |-> 0, hi |-> 10000] >>

IsNa(x) == x = NaN

\* a check with the high bound outside the range: bad = isna | < lo | >= hi
OutOfRangeHighExclusive(x, lo, hi) ==
    IsNa(x) \/ (~IsNa(x) /\ (x < lo \/ x >= hi))

\* a check that compares only: bad = (value < lo) | (value > hi)
OutOfRangeCompared(x, lo, hi) == ~IsNa(x) /\ (x < lo \/ x > hi)

\* bad = isna | (value < lo) | (value > hi); a comparison with NaN is false
OutOfRange(x, lo, hi) == IsNa(x) \/ (~IsNa(x) /\ (x < lo \/ x > hi))

\* the violating columns of a row, in check order ("," joined in the code)
ViolationFields(r) ==
    LET bad == Filter(TelemetryConstraints,
                      {c \in Range(TelemetryConstraints) :
                          /\ c.col \in DOMAIN r
                          /\ OutOfRange(r[c.col], c.lo, c.hi)})
    IN [i \in DOMAIN bad |-> bad[i].col]

AddRangeFlags(r) ==
    [has_range_violation |-> ViolationFields(r) # <<>>,
     range_violation_fields |-> ViolationFields(r)] @@ r

DedupKey(r) == <<r.event_time, r.farm_id, r.turbine_id>>

RECURSIVE InsertSorted(_, _)
\* r placed after every row whose key is not greater than its own
InsertSorted(s, r) ==
    IF s = <<>> THEN <<r>>
    ELSE IF LexLess(DedupKey(r), DedupKey(Head(s))) THEN <<r>> \o s
    ELSE <<Head(s)>> \o InsertSorted(Tail(s), r)

RECURSIVE SortValues(_)
\* df.sort_values(key_cols): a stable sort on the key columns
SortValues(s) ==
    IF s = <<>> THEN <<>>
    ELSE InsertSorted(SortValues(SubSeq(s, 1, Len(s) - 1)), s[Len(s)])

\* df.drop_duplicates(subset=key_cols, keep="first")
DropDuplicates(s) ==
    Pick(s, {i \in DOMAIN s :
                \A j \in 1..(i - 1) : DedupKey(s[j]) # DedupKey(s[i])}, 1)

NormalizeSilver(r) ==
    [r EXCEPT !.event_time = FloorMs(r.event_time),
              !.ingest_time = FloorMs(r.ingest_time)]

\* df_new when the processed-set is not consulted
SilverNewUnfiltered(ds, processed) ==
    [i \in DOMAIN ReadDataset(ds) |-> NormalizeSilver(ReadDataset(ds)[i])]

\* df_new: the Bronze rows whose process_key is not in the processed-set
SilverNew(ds, processed) ==
    LET df == [i \in DOMAIN ReadDataset(ds) |->
                  NormalizeSilver(ReadDataset(ds)[i])]
    IN Filter(df, {r \in Range(df) : ProcessKey(r) \notin processed})

\* a curation that keeps only the rows without a range violation
SilverCuratedValidOnly(df_new) ==
    LET df == DropDuplicates(SortValues(df_new))
        flagged == [i \in DOMAIN df |->
                       AddRangeFlags([is_duplicate |-> FALSE] @@ df[i])]
    IN Filter(flagged, {r \in Range(flagged) : ~r.has_range_violation})

\* the table handed to write_to_dataset
SilverCurated(df_new) ==
    LET df == DropDuplicates(SortValues(df_new))
    IN [i \in DOMAIN df |-> AddRangeFlags([is_duplicate |-> FALSE] @@ df[i])]

\* partition_cols=["sim_run_id", "farm_id", "date"]
SilverPartition == <<"sim_run_id", "farm_id", "date">>

\* a file name no earlier Silver write has used
SilverBasenameFresh == Cardinality(DOMAIN silver) + 1

\* basename_template = "part-{i}.parquet"
SilverBasename == 0

\* the Silver dataset after write_to_dataset completed the files of done
SilverWritten(table, done) ==
    WriteFiles(silver, table, SilverPartition, SilverBasename, done)

\* the processed-set saved before the table write is known to have returned
SilverSavedFirst(table, processed, returned) ==
    SaveSet(SilverStateName, processed \cup ProcessKeys(table))

\* processed.update and save_set run only when write_to_dataset returned
SilverSaved(table, processed, returned) ==
    IF returned
    THEN SaveSet(SilverStateName, processed \cup ProcessKeys(table))
    ELSE store

\* the rows of table in the partitions of done, and their number
TableIn(table, partition_cols, done) ==
    Filter(table, {r \in Range(table) :
                      PartitionOf(partition_cols, r) \in done})

RowsIn(table, partition_cols, done) ==
    Len(TableIn(table, partition_cols, done))

\* raise FileNotFoundError: the Bronze path does not exist
SilverRunMissing ==
    /\ ~PathExists("bronze")
    /\ last' = CallResult("SilverJob.run", "FileNotFoundError", <<>>, TRUE)
    /\ UNCHANGED <<bronze, silver, hourly_energy, farm_kpis, store, exists,
                   pending, ingested, wind>>

\* raise ValueError("No data found in bronze."): the path exists, no rows
SilverRunEmpty ==
    /\ PathExists("bronze")
    /\ ReadDataset(bronze) = <<>>
    /\ last' = CallResult("SilverJob.run", "ValueError", <<>>, TRUE)
    /\ UNCHANGED <<bronze, silver, hourly_energy, farm_kpis, store, exists,
                   pending, ingested, wind>>

\* "SilverJob: no new hours to process"
SilverRunNoNew ==
    /\ PathExists("bronze")
    /\ ReadDataset(bronze) # <<>>
    /\ SilverNew(bronze, LoadSet(SilverStateName)) = <<>>
    /\ last' = CallResult("SilverJob.run", "ok", <<>>, TRUE)
    /\ UNCHANGED <<bronze, silver, hourly_energy, farm_kpis, store, exists,
                   pending, ingested, wind>>

SilverRunOk ==
    /\ PathExists("bronze")
    /\ exists' = exists \cup {"silver"}
    /\ LET processed == LoadSet(SilverStateName)
           df_new == SilverNew(bronze, processed)
           out == SilverCurated(df_new)
           all == PartitionsOf(out, SilverPartition)
       IN /\ df_new # <<>>
          /\ silver' = SilverWritten(out, all)
          /\ store' = SilverSaved(out, processed, TRUE)
          /\ last' = CallResult("SilverJob.run", "ok", out, TRUE)
          /\ pending' = IF pending.active
                        THEN [pending EXCEPT !.active = FALSE,
                                             !.retried = TRUE]
                        ELSE NoPending
    /\ UNCHANGED <<bronze, hourly_energy, farm_kpis, ingested, wind>>

\* write_to_dataset raises after completing the files of some partitions,
\* or the process stops between the write and save_set
SilverRunFail ==
    /\ PathExists("bronze")
    /\ exists' = exists \cup {"silver"}
    /\ LET processed == LoadSet(SilverStateName)
           df_new == SilverNew(bronze, processed)
           out == SilverCurated(df_new)
           all == PartitionsOf(out, SilverPartition)
       IN /\ df_new # <<>>
          /\ \E done \in SUBSET all :
                /\ silver' = SilverWritten(out, done)
                /\ store' = SilverSaved(out, processed, FALSE)
                /\ last' = CallResult("SilverJob.run", "OSError",
                                      TableIn(out, SilverPartition, done),
                                      TRUE)
                /\ pending' =
                       IF pending.active THEN pending
                       ELSE [active |-> TRUE, retried |-> FALSE,
                             silver |-> SilverWritten(out, all),
                             partial |-> RowsIn(out, SilverPartition, done)]
    /\ UNCHANGED <<bronze, hourly_energy, farm_kpis, ingested, wind>>

SilverRun == SilverRunMissing \/ SilverRunNoNew \/ SilverRunOk \/ SilverRunFail

\* the run is stopped (signal, power loss, full disk) inside save_set,
\* after write_to_dataset returned
SilverRunSaveStopped ==
    /\ PathExists("bronze")
    /\ LoadError(store, SilverStateName) = "ok"
    /\ exists' = exists \cup {"silver"}
    /\ LET processed == LoadSet(SilverStateName)
           df_new == SilverNew(bronze, processed)
           out == SilverCurated(df_new)
           items == processed \cup ProcessKeys(out)
       IN /\ df_new # <<>>
          /\ silver' = SilverWritten(out, PartitionsOf(out, SilverPartition))
          /\ \E n \in 0..Len(JsonDump(items)) :
                store' = SaveSetStopped(SilverStateName, items, n)
          /\ last' = CallResult("SilverJob.run", "Stopped", out, TRUE)
    /\ UNCHANGED <<bronze, hourly_energy, farm_kpis, pending, ingested, wind>>

\* load_set raises json.JSONDecodeError on a file that is not complete
SilverRunUnreadable ==
    /\ PathExists("bronze")
    /\ ReadDataset(bronze) # <<>>
    /\ LoadError(store, SilverStateName) # "ok"
    /\ last' = CallResult("SilverJob.run", LoadError(store, SilverStateName),
                          <<>>, TRUE)
    /\ UNCHANGED <<bronze, silver, hourly_energy, farm_kpis, store, exists,
                   pending, ingested, wind>>

\* SilverJob.run when the file of its processed-set can be read
SilverRunReadable ==
    /\ LoadError(store, SilverStateName) = "ok"
    /\ (SilverRunNoNew \/ SilverRunOk)

(***************************************************************************)
(* GoldJob.                                                                *)
(***************************************************************************)
DtSeconds == 60          \* run_hourly_energy(dt_seconds=60)
RatedPowerKw == 2000     \* run_farm_kpis(..., rated_power_kw=2000.0)
SecondsPerHour == 3600

\* both rollups under the state name of the hourly-energy rollup
GoldStateNameShared(rollup) == "gold_processed_hours"

\* state_name of each rollup
GoldStateName(rollup) ==
    IF rollup = "hourly_energy" THEN "gold_processed_hours"
    ELSE "gold_farm_kpis_processed_hours"

RECURSIVE SumOver(_, _)
\* the sum of the column col over the rows of table (NaN skipped)
SumOver(table, col) ==
    IF table = <<>> THEN 0
    ELSE (IF IsNa(Head(table)[col]) THEN 0 ELSE Head(table)[col])
         + SumOver(Tail(table), col)

\* the number of rows of table that are in rows
CountWhere(table, rows) ==
    Cardinality({i \in DOMAIN table : table[i] \in rows})

\* numpy round: to the nearest integer, halves to the even one
RoundHalfEven(n, d) ==
    LET q == n \div d
        r == n % d
    IN IF 2 * r < d THEN q
       ELSE IF 2 * r > d THEN q + 1
       ELSE IF q % 2 = 0 THEN q ELSE q + 1

\* a quotient that a zero divisor clamps to 0
QuotientClamped(num, den) ==
    IF den # 0 THEN [num |-> num, den |-> den, kind |-> "finite"]
    ELSE [num |-> 0, den |-> 1, kind |-> "finite"]

\* a float quotient: inf or nan when the divisor is zero
Quotient(num, den) ==
    [num |-> num, den |-> den,
     kind |-> IF den # 0 THEN "finite" ELSE IF num = 0 THEN "nan" ELSE "inf"]

\* groupby([sim_run_id, farm_id, turbine_id, hour]).agg(...); energy is
\* kept in kW seconds (energy_kwh * 3600), averages as their sums
HourlyEnergyAgg(df) ==
    LET KeyOf(r) ==
            <<r.sim_run_id, r.farm_id, r.turbine_id, FloorHour(r.event_time)>>
        keys == SortedKeys({KeyOf(df[i]) : i \in DOMAIN df})
        Row(k) ==
            LET g == Filter(df, {r \in Range(df) : KeyOf(r) = k})
            IN [sim_run_id |-> k[1], farm_id |-> k[2], turbine_id |-> k[3],
                event_time |-> k[4],
                wind_speed_mps_sum |-> SumOver(g, "wind_speed_mps"),
                power_kw_sum |-> SumOver(g, "power_kw"),
                energy_kws |-> SumOver(g, "power_kw") * DtSeconds,
                downtime_seconds |->
                    CountWhere(g, {r \in Range(g) : r.status # "RUNNING"})
                        * DtSeconds,
                bad_rows |->
                    CountWhere(g, {r \in Range(g) : r.has_range_violation}),
                rows |-> Len(g)]
    IN [i \in DOMAIN keys |-> Row(keys[i])]

\* groupby([sim_run_id, farm_id, hour]).agg(...) and the derived KPIs
FarmKpisAgg(df) ==
    LET KeyOf(r) == <<r.sim_run_id, r.farm_id, FloorHour(r.event_time)>>
        keys == SortedKeys({KeyOf(df[i]) : i \in DOMAIN df})
        rows_per_turbine_per_hour == SecondsPerHour \div DtSeconds
        Row(k) ==
            LET g == Filter(df, {r \in Range(df) : KeyOf(r) = k})
                energy == SumOver(g, "power_kw") * DtSeconds
                running ==
                    CountWhere(g, {r \in Range(g) : r.status = "RUNNING"})
                bad == CountWhere(g, {r \in Range(g) : r.has_range_violation})
                n_est == RoundHalfEven(Len(g), rows_per_turbine_per_hour)
            IN [sim_run_id |-> k[1], farm_id |-> k[2], event_time |-> k[3],
                farm_power_kw_sum |-> SumOver(g, "power_kw"),
                farm_energy_kws |-> energy,
                running_rows |-> running,
                total_rows |-> Len(g),
                bad_rows |-> bad,
                avg_free_wind_sum |-> SumOver(g, "wind_speed_free_mps"),
                avg_effective_wind_sum |-> SumOver(g, "wind_speed_mps"),
                availability |-> Quotient(running, Len(g)),
                bad_row_rate |-> Quotient(bad, Len(g)),
                n_turbines_est |-> n_est,
                capacity_factor |->
                    Quotient(energy, n_est * RatedPowerKw * SecondsPerHour)]
    IN [i \in DOMAIN keys |-> Row(keys[i])]

GoldAgg(rollup, df) ==
    IF rollup = "hourly_energy" THEN HourlyEnergyAgg(df) ELSE FarmKpisAgg(df)

\* agg_new when the processed-set is not consulted
GoldNewUnfiltered(rollup, processed) == GoldAgg(rollup, ReadDataset(silver))

\* agg_new: the rollup rows whose process_key is not in the processed-set
GoldNew(rollup, processed) ==
    LET agg == GoldAgg(rollup, ReadDataset(silver))
    IN Filter(agg, {r \in Range(agg) : ProcessKey(r) \notin processed})

\* partition_cols=["sim_run_id", "farm_id", "date"]
GoldPartition == <<"sim_run_id", "farm_id", "date">>

\* basename_template = "part-{i}.parquet"
GoldBasename == 0

GoldDataset(rollup) ==
    IF rollup = "hourly_energy" THEN hourly_energy ELSE farm_kpis

\* the rollup's dataset after write_to_dataset completed the files of done
GoldWritten(rollup, table, done) ==
    WriteFiles(GoldDataset(rollup), table, GoldPartition, GoldBasename, done)

\* processed.update and save_set run only when write_to_dataset returned
GoldSaved(rollup, table, processed, returned) ==
    IF returned
    THEN SaveSet(GoldStateName(rollup), processed \cup ProcessKeys(table))
    ELSE store

SetGold(rollup, ds) ==
    IF rollup = "hourly_energy"
    THEN hourly_energy' = ds /\ UNCHANGED farm_kpis
    ELSE farm_kpis' = ds /\ UNCHANGED hourly_energy

GoldOp(rollup) ==
    IF rollup = "hourly_energy" THEN "GoldJob.run_hourly_energy"
    ELSE "GoldJob.run_farm_kpis"

\* the Silver path looked for only after out_dir.mkdir
GoldMissingAfterMkdir(rollup) ==
    /\ ~PathExists("silver")
    /\ exists' = exists \cup {rollup}
    /\ last' = CallResult(GoldOp(rollup), "FileNotFoundError", <<>>, TRUE)
    /\ UNCHANGED <<bronze, silver, hourly_energy, farm_kpis, store, pending,
                   ingested, wind>>

\* raise FileNotFoundError: the Silver path does not exist
GoldMissing(rollup) ==
    /\ ~PathExists("silver")
    /\ last' = CallResult(GoldOp(rollup), "FileNotFoundError", <<>>, TRUE)
    /\ UNCHANGED <<bronze, silver, hourly_energy, farm_kpis, store, exists,
                   pending, ingested, wind>>

\* "no data found in silver", or "no new hours to process"
GoldNoNew(rollup) ==
    /\ PathExists("silver")
    /\ exists' = exists \cup {rollup}
    /\ \/ ReadDataset(silver) = <<>>
       \/ GoldNew(rollup, LoadSet(GoldStateName(rollup))) = <<>>
    /\ last' = CallResult(GoldOp(rollup), "ok", <<>>, TRUE)
    /\ UNCHANGED <<bronze, silver, hourly_energy, farm_kpis, store, pending,
                   ingested, wind>>

GoldOk(rollup) ==
    /\ PathExists("silver")
    /\ exists' = exists \cup {rollup}
    /\ LET processed == LoadSet(GoldStateName(rollup))
           agg_new == GoldNew(rollup, processed)
       IN /\ agg_new # <<>>
          /\ SetGold(rollup,
                     GoldWritten(rollup, agg_new,
                                 PartitionsOf(agg_new, GoldPartition)))
          /\ store' = GoldSaved(rollup, agg_new, processed, TRUE)
          /\ last' = CallResult(GoldOp(rollup), "ok", agg_new, TRUE)
    /\ UNCHANGED <<bronze, silver, pending, ingested, wind>>

\* write_to_dataset raises after completing the files of some partitions,
\* or the process stops between the write and save_set
GoldFail(rollup) ==
    /\ PathExists("silver")
    /\ exists' = exists \cup {rollup}
    /\ LET processed == LoadSet(GoldStateName(rollup))
           agg_new == GoldNew(rollup, processed)
       IN /\ agg_new # <<>>
          /\ \E done \in SUBSET PartitionsOf(agg_new, GoldPartition) :
                /\ SetGold(rollup, GoldWritten(rollup, agg_new, done))
                /\ last' = CallResult(GoldOp(rollup), "OSError",
                                      TableIn(agg_new, GoldPartition, done),
                                      TRUE)
          /\ store' = GoldSaved(rollup, agg_new, processed, FALSE)
    /\ UNCHANGED <<bronze, silver, pending, ingested, wind>>

RunHourlyEnergy ==
    \/ GoldMissing("hourly_energy")
    \/ GoldNoNew("hourly_energy")
    \/ GoldOk("hourly_energy")
    \/ GoldFail("hourly_energy")

RunFarmKpis ==
    \/ GoldMissing("farm_kpis")
    \/ GoldNoNew("farm_kpis")
    \/ GoldOk("farm_kpis")
    \/ GoldFail("farm_kpis")

(***************************************************************************)
(* TelemetryGenerator.generate and main().                                 *)
(***************************************************************************)
ScenarioTurbineIds == {1, 2}

\* one row of the nested loop over time steps and turbines
GeneratedRow(run, step, turbine) ==
    [event_time |-> step, farm_id |-> CHOOSE f \in FarmIds : TRUE,
     turbine_id |-> turbine,
     wind_speed_free_mps |-> CHOOSE v \in FreeWindValues : TRUE,
     wind_speed_mps |-> CHOOSE v \in WindSpeedValues : TRUE,
     wind_dir_deg |-> CHOOSE v \in WindDirValues : TRUE,
     power_kw |-> CHOOSE v \in PowerValues : TRUE,
     rotor_speed_rpm |-> CHOOSE v \in RotorSpeedValues : TRUE,
     yaw_deg |-> CHOOSE v \in YawValues : TRUE,
     status |-> CHOOSE v \in StatusValues : TRUE,
     sim_run_id |-> run,
     source |-> CHOOSE v \in SourceValues : TRUE]

\* the rows of n_steps time steps in loop order, then the copy of the row
\* at index dup that the duplicate injection appends (dup_count = 1)
Generate(run, n_steps, dup) ==
    LET turbines == SortedKeys({<<t>> : t \in ScenarioTurbineIds})
        n == Len(turbines)
        base == [i \in 1..(n_steps * n) |->
                    GeneratedRow(run, (i - 1) \div n,
                                 turbines[((i - 1) % n) + 1][1])]
    IN [columns |-> TelemetryColumns, rows |-> Append(base, base[dup])]

\* PowerCurve: cut-in, rated and cut-out wind speed (m/s)
CutInMps == 3
RatedMps == 12
CutOutMps == 25

\* the cut-in speed itself counted as below cut-in
PowerCurveCutInExclusive(v, rated_power_kw) ==
    IF v >= CutOutMps THEN [power_kw |-> 0, status |-> "CUT_OUT"]
    ELSE IF v <= CutInMps THEN [power_kw |-> 0, status |-> "STOPPED"]
    ELSE IF v < RatedMps
         THEN [power_kw |->
                   (rated_power_kw * (v - CutInMps) * (v - CutInMps)
                       * (v - CutInMps))
                   \div ((RatedMps - CutInMps) * (RatedMps - CutInMps)
                            * (RatedMps - CutInMps)),
               status |-> "RUNNING"]
    ELSE [power_kw |-> rated_power_kw, status |-> "RUNNING"]

\* PowerCurve.power_kw: the power (rounded down to a whole kW) and status;
\* every comparison with a NaN speed is false
PowerCurvePowerKw(v, rated_power_kw) ==
    IF IsNa(v) THEN [power_kw |-> rated_power_kw, status |-> "RUNNING"]
    ELSE IF v >= CutOutMps THEN [power_kw |-> 0, status |-> "CUT_OUT"]
    ELSE IF v < CutInMps THEN [power_kw |-> 0, status |-> "STOPPED"]
    ELSE IF v < RatedMps
         THEN LET span == RatedMps - CutInMps
                  x == v - CutInMps
              IN [power_kw |->
                      (rated_power_kw * x * x * x) \div (span * span * span),
                  status |-> "RUNNING"]
    ELSE [power_kw |-> rated_power_kw, status |-> "RUNNING"]

\* rotor_rpm = 0.0 if status != "RUNNING"
\*             else 6.0 + (min(wind_speed, 12.0) - 3.0) * (12.0 / 9.0)
RotorRpm(status, wind_speed) ==
    IF status # "RUNNING" THEN 0
    ELSE 6 + (((IF wind_speed < 12 THEN wind_speed ELSE 12) - 3) * 12) \div 9

\* the band the draw r = rng.random() of a row falls in
IssueKinds == {"none", "missing_wind", "negative_wind", "power_spike"}

\* self.rng.random(): the draws of the generator's rng, in ten-thousandths,
\* are the elements of stream taken in turn (and again from the first)
Draw(stream, pos) == stream[((pos - 1) % Len(stream)) + 1]

\* an injection that draws anew for each of the three checks
InjectIssuesResampled(row, stream, pos) ==
    LET r1 == Draw(stream, pos)
        r2 == Draw(stream, pos + 1)
        r3 == Draw(stream, pos + 2)
        missing == IF r1 < 20 THEN [row EXCEPT !.wind_speed_mps = NaN] ELSE row
        negative == IF 20 <= r2 /\ r2 < 40
                    THEN [missing EXCEPT !.wind_speed_mps = 0 - 5]
                    ELSE missing
        spike == IF 40 <= r3 /\ r3 < 55
                 THEN [negative EXCEPT !.power_kw = 99999]
                 ELSE negative
    IN [row |-> spike, pos |-> pos + 3]

\* if inject_issues: r = self.rng.random(), then the three checks of r one
\* after the other; the row and the position of the rng afterwards
InjectIssues(row, stream, pos) ==
    LET r == Draw(stream, pos)
        missing == IF r < 20 THEN [row EXCEPT !.wind_speed_mps = NaN] ELSE row
        negative == IF 20 <= r /\ r < 40
                    THEN [missing EXCEPT !.wind_speed_mps = 0 - 5]
                    ELSE missing
        spike == IF 40 <= r /\ r < 55
                 THEN [negative EXCEPT !.power_kw = 99999]
                 ELSE negative
    IN [row |-> spike, pos |-> pos + 1]

\* a draw in the band of kind
KindDraw(kind) ==
    CASE kind = "missing_wind" -> 0
      [] kind = "negative_wind" -> 20
      [] kind = "power_spike" -> 40
      [] OTHER -> 55

\* inject_issues: what the band of the draw does to the measured values
InjectIssue(row, kind) == InjectIssues(row, <<KindDraw(kind)>>, 1).row

\* the values of a row before the injection: free-stream speed v and
\* direction dir at the turbine (no wake loss), power and status from the
\* power curve
CleanRow(run, step, turbine, v, dir) ==
    LET curve == PowerCurvePowerKw(v, RatedPowerKw)
    IN [event_time |-> step, farm_id |-> CHOOSE f \in FarmIds : TRUE,
        turbine_id |-> turbine, wind_speed_free_mps |-> v,
        wind_speed_mps |-> v, wind_dir_deg |-> dir,
        power_kw |-> curve.power_kw,
        rotor_speed_rpm |-> RotorRpm(curve.status, v), yaw_deg |-> dir,
        status |-> curve.status, sim_run_id |-> run,
        source |-> CHOOSE x \in SourceValues : TRUE]

\* one row of the loop, the draw of its injection in the band of kind
FarmRow(run, step, turbine, v, dir, kind) ==
    InjectIssue(CleanRow(run, step, turbine, v, dir), kind)

RECURSIVE GenerateLoop(_, _, _, _, _, _)
\* the rows appended for the turbines i..n_turbines of one time step, rows
\* the rows before them and pos the position of the rng
GenerateLoop(n_turbines, v, stream, i, pos, rows) ==
    IF i > n_turbines THEN [rows |-> rows, pos |-> pos]
    ELSE LET out == InjectIssues(
                        CleanRow(CHOOSE run \in SimRunIds : TRUE, 0, i, v,
                                 CHOOSE d \in WindDirValues : TRUE),
                        stream, pos)
         IN GenerateLoop(n_turbines, v, stream, i + 1, out.pos,
                         Append(rows, out.row))

\* generate for a farm of n_turbines over one time step with anomaly
\* injection: the draw of the first row falls in the band of kind, the
\* others in none; the duplicate injection appends a copy of the last row
GenerateFarm(run, n_turbines, v, kind) ==
    LET base == [i \in 1..n_turbines |->
                    FarmRow(run, 0, i, v, CHOOSE d \in WindDirValues : TRUE,
                            IF i = 1 THEN kind ELSE "none")]
    IN [columns |-> TelemetryColumns,
        rows |-> Append(base, base[n_turbines])]

BronzeRuns == {r.sim_run_id : r \in Range(ReadDataset(bronze))}
BronzeSteps ==
    Cardinality({r.event_time : r \in Range(ReadDataset(bronze))})

\* run_scenario(cfg): generate, then BronzeWriter().write_hourly_chunks(df)
MainScenario ==
    \E run \in SimRunIds, n_steps \in 1..TicksPerHour :
        /\ \/ run = 1 /\ last.op = "init"
           \/ /\ run = 2
              /\ last.op = "write_hourly_chunks"
              /\ BronzeRuns = {1}
              /\ n_steps = BronzeSteps
        /\ \E dup \in 1..(n_steps * Cardinality(ScenarioTurbineIds)) :
              WriteHourlyChunks(Generate(run, n_steps, dup))

\* SilverJob().run()
MainSilver ==
    /\ last.op = "write_hourly_chunks"
    /\ BronzeRuns = SimRunIds
    /\ SilverRunOk

\* GoldJob().run_hourly_energy(dt_seconds=60)
MainHourlyEnergy ==
    /\ last.op = "SilverJob.run"
    /\ last.err = "ok"
    /\ GoldOk("hourly_energy")

\* GoldJob().run_farm_kpis(dt_seconds=60, rated_power_kw=2000.0)
MainFarmKpis ==
    /\ last.op = "GoldJob.run_hourly_energy"
    /\ last.err = "ok"
    /\ GoldOk("farm_kpis")

(***************************************************************************)
(* WindField.  Fixed point: speeds in thousandths of a m/s, directions in  *)
(* thousandths of a degree.                                                *)
(***************************************************************************)
\* the dataclass defaults
WindFieldDefaults ==
    [base_speed_mps |-> 8000, daily_variation_mps |-> 4000,
     spatial_variation_mps |-> 800, noise_std_mps |-> 1600,
     base_dir_deg |-> 220000, dir_noise_std_deg |-> 8000]

DefaultSeed == 42

\* np.random.default_rng(seed) and one step of it: a generator whose state
\* after k draws is a fixed function of the seed and k (a linear
\* congruential stand-in for PCG64)
SeedRng(seed) == seed % 65537
NextRng(state) == (state * 75 + 74) % 65537

\* rng.normal(0.0, std) read off the state after the draw, within 2 std
Normal(state, std) == (std * ((state % 4001) - 2000)) \div 1000

\* __post_init__: the fields of a new instance; calls and outs record the
\* calls made on it and what each returned
NewWindField(seed) == [rng |-> SeedRng(seed), calls |-> <<>>, outs |-> <<>>]

\* np.sin(2 * np.pi * (t_seconds / 3600.0) / 24.0) in thousandths
DailyCycle(t_seconds) ==
    CASE t_seconds = 0 -> 0
      [] t_seconds = 21600 -> 1000
      [] t_seconds = 64800 -> 0 - 1000

\* get_wind_at_turbine: (speed, direction) and the state of the rng after
\* its two draws
GetWindAtTurbine(rng, t_seconds, x_m, y_m) ==
    LET p == WindFieldDefaults
        first == NextRng(rng)
        second == NextRng(first)
        base == p.base_speed_mps
                + (p.daily_variation_mps * DailyCycle(t_seconds)) \div 1000
        spacial_bias == (p.spatial_variation_mps * (5 * x_m - 3 * y_m))
                        \div 10000
        speed == base + spacial_bias + Normal(first, p.noise_std_mps)
        direction == p.base_dir_deg + Normal(second, p.dir_noise_std_deg)
    IN [speed |-> IF speed > 0 THEN speed ELSE 0,
        direction |-> direction % 360000,
        rng |-> second]

WindInstances == {"first", "second"}

\* one generator behind every instance: the call advances the rng of all
WindAfterCallSharedRng(i, t_seconds, x_m, y_m) ==
    LET out == GetWindAtTurbine(wind[i].rng, t_seconds, x_m, y_m)
    IN [j \in WindInstances |->
           IF j = i
           THEN [rng |-> out.rng,
                 calls |-> Append(wind[i].calls, <<t_seconds, x_m, y_m>>),
                 outs |-> Append(wind[i].outs, <<out.speed, out.direction>>)]
           ELSE [wind[j] EXCEPT !.rng = out.rng]]

\* the instances after instance i served a call: only self.rng of i moves
WindAfterCall(i, t_seconds, x_m, y_m) ==
    LET out == GetWindAtTurbine(wind[i].rng, t_seconds, x_m, y_m)
    IN [wind EXCEPT
           ![i] = [rng |-> out.rng,
                   calls |-> Append(wind[i].calls, <<t_seconds, x_m, y_m>>),
                   outs |-> Append(wind[i].outs,
                                   <<out.speed, out.direction>>)]]

InitLake ==
    /\ bronze = EmptyDataset
    /\ silver = EmptyDataset
    /\ hourly_energy = EmptyDataset
    /\ farm_kpis = EmptyDataset
    /\ store = <<>>
    /\ exists = {}
    /\ last = CallResult("init", "ok", <<>>, TRUE)
    /\ pending = NoPending
    /\ ingested = EmptyBag

Init ==
    /\ InitLake
    /\ wind = [i \in WindInstances |-> NewWindField(DefaultSeed)]

\* Ingest and curation: generated dataframes are written to Bronze by
\* either entry point, SilverJob.run is called at any time.
Ingest == \E df \in Generated : Write(df) \/ WriteHourlyChunks(df)

Next == Ingest \/ SilverRun

Spec == Init /\ [][Next]_vars

\* The Bronze writer alone, offered every dataframe.
BronzeCall == \E df \in Batches : Write(df) \/ WriteHourlyChunks(df)

SpecBronze == Init /\ [][BronzeCall]_vars

\* The three stages together: one-row dataframes go through
\* write_hourly_chunks, the three jobs are called in any order and any
\* number of times; a Gold table write may fail.
Scenario == {df \in Generated : Len(df.rows) = 1}

IngestScenario == \E df \in Scenario : WriteHourlyChunks(df)

NextPipeline ==
    \/ IngestScenario
    \/ SilverRunMissing
    \/ SilverRunNoNew
    \/ SilverRunOk
    \/ RunHourlyEnergy
    \/ RunFarmKpis

SpecPipeline == Init /\ [][NextPipeline]_vars

\* The three stages with a table write of any of them failing; the rows
\* ingested are the first of their hour.
HourStarts ==
    {df \in Scenario : FloorHour(df.rows[1].event_time) = df.rows[1].event_time}

IngestHourStart == \E df \in HourStarts : WriteHourlyChunks(df)

NextFailure ==
    IngestHourStart \/ SilverRun \/ RunHourlyEnergy \/ RunFarmKpis

SpecFailure == Init /\ [][NextFailure]_vars

\* The jobs over upstream locations that are absent, empty or filled: a
\* Bronze write may raise after it made the Bronze directory.
BronzeWriteRaises == \E df \in HourStarts : WriteRaises(df)

NextUpstream ==
    \/ IngestHourStart
    \/ BronzeWriteRaises
    \/ SilverRunMissing
    \/ SilverRunEmpty
    \/ SilverRunNoNew
    \/ SilverRunOk
    \/ RunHourlyEnergy
    \/ RunFarmKpis

SpecUpstream == Init /\ [][NextUpstream]_vars

\* Curation of telemetry with data-quality conditions: one record of a
\* turbine whose measured values are missing, below, at or above their
\* bounds, alone or together with a record of the same turbine and time
\* whose values are all within bounds.
QualityRecords ==
    [event_time : {0}, farm_id : FarmIds, turbine_id : TurbineIds,
     wind_speed_free_mps : FreeWindValues,
     wind_speed_mps : {NaN, 0 - 5, 60, 61},
     wind_dir_deg : {NaN, 360, 361},
     power_kw : {NaN, 10000, 99999},
     rotor_speed_rpm : {0 - 1, 30},
     yaw_deg : {0, 361},
     status : StatusValues, sim_run_id : {CHOOSE run \in SimRunIds : TRUE},
     source : SourceValues]

ValidRecord ==
    [event_time |-> 0, farm_id |-> CHOOSE f \in FarmIds : TRUE,
     turbine_id |-> CHOOSE t \in TurbineIds : TRUE,
     wind_speed_free_mps |-> CHOOSE x \in FreeWindValues : TRUE,
     wind_speed_mps |-> CHOOSE x \in WindSpeedValues : TRUE,
     wind_dir_deg |-> CHOOSE x \in WindDirValues : TRUE,
     power_kw |-> CHOOSE x \in PowerValues : TRUE,
     rotor_speed_rpm |-> CHOOSE x \in RotorSpeedValues : TRUE,
     yaw_deg |-> CHOOSE x \in YawValues : TRUE,
     status |-> CHOOSE x \in StatusValues : TRUE,
     sim_run_id |-> CHOOSE run \in SimRunIds : TRUE,
     source |-> CHOOSE x \in SourceValues : TRUE]

QualityBatches ==
    [columns : {TelemetryColumns},
     rows : {<<r>> : r \in QualityRecords}
            \cup {<<r, ValidRecord>> : r \in QualityRecords}
            \cup {<<ValidRecord, r>> : r \in QualityRecords}]

QualityIngest ==
    /\ last.op = "init"
    /\ \E df \in QualityBatches : WriteHourlyChunks(df)

QualitySilver == SilverRunNoNew \/ SilverRunOk

NextQuality == QualityIngest \/ QualitySilver

SpecQuality == Init /\ [][NextQuality]_vars

\* Ingestion and curation with a curation run stopped inside save_set.
NextSave ==
    \/ IngestHourStart
    \/ SilverRunReadable
    \/ SilverRunSaveStopped
    \/ SilverRunUnreadable

SpecSave == Init /\ [][NextSave]_vars

\* A call of one of the physical models: its arguments and what it returned.
ModelCall(op, args, result) ==
    [op |-> op, err |-> "ok", args |-> args, result |-> result]

\* PowerCurve.power_kw called with whole wind speeds up to MaxWindSpeed and
\* several rated powers.
MaxWindSpeed == 30
CurveRatedPowers == {729, 1458, 2000, 3000}

CallPowerKw ==
    /\ \E v \in 0..MaxWindSpeed, rated \in CurveRatedPowers :
          last' = ModelCall("PowerCurve.power_kw", <<v, rated>>,
                            PowerCurvePowerKw(v, rated))
    /\ UNCHANGED <<bronze, silver, hourly_energy, farm_kpis, store, exists,
                   pending, ingested, wind>>

SpecCurve == Init /\ [][CallPowerKw]_vars

(***************************************************************************)
(* WakeModel.  Fixed point: factors and the wind unit vector in            *)
(* thousandths, speeds in thousandths of a m/s, distances in m.            *)
(***************************************************************************)
GridRows == 2
GridCols == 3
SpacingM == 600
DecayLengthM == 800
CrosswindSigmaM == 200

\* make_grid_farm: turbine k = r * n_cols + c + 1 at (c * spacing, r * spacing)
MakeGridFarm(n_rows, n_cols, spacing_m) ==
    [k \in 1..(n_rows * n_cols) |->
        [turbine_id |-> k,
         x_m |-> ((k - 1) % n_cols) * spacing_m,
         y_m |-> ((k - 1) \div n_cols) * spacing_m]]

\* (math.cos(theta), math.sin(theta)) of theta = math.radians(direction);
\* the floats for 90, 180 and 270 degrees are not exactly zero (6.1e-17,
\* 1.2e-16, -1.8e-16): they keep their sign as one thousandth
UnitVectorFromDirectionDeg(direction_deg) ==
    CASE direction_deg = 0 -> <<1000, 0>>
      [] direction_deg = 90 -> <<1, 1000>>
      [] direction_deg = 180 -> <<0 - 1000, 1>>
      [] direction_deg = 220 -> <<0 - 766, 0 - 643>>
      [] direction_deg = 270 -> <<0 - 1, 0 - 1000>>

WakeDirections == {0, 90, 180, 220, 270}

\* 1000 * math.exp(-k / 4) for k = 0, 1, ...
ExpTable ==
    <<1000, 779, 607, 472, 368, 287, 223, 174, 135, 105, 82, 64, 50, 39, 30,
      24, 18, 14, 11, 9, 7, 5, 4, 3, 2, 2, 2, 1, 1, 1, 1>>

\* math.exp(-num / den) in thousandths, the argument taken in quarters
ExpNeg(num, den) ==
    LET k == (4 * num) \div den
    IN IF k + 1 > Len(ExpTable) THEN 0 ELSE ExpTable[k + 1]

Abs(x) == IF x < 0 THEN 0 - x ELSE x

\* a wake that also reaches turbines upwind of src: downwind <= 0 not skipped
WakeLossAnySide(wake_strength, target, src, direction_deg) ==
    LET u == UnitVectorFromDirectionDeg(direction_deg)
        dx == target.x_m - src.x_m
        dy == target.y_m - src.y_m
        downwind == Abs(dx * u[1] + dy * u[2])
        crosswind == Abs(dy * u[1] - dx * u[2]) \div 1000
    IN IF src.turbine_id = target.turbine_id THEN 0
       ELSE (wake_strength
               * ExpNeg(crosswind * crosswind,
                        2 * CrosswindSigmaM * CrosswindSigmaM)
               * ExpNeg(downwind \div 1000, DecayLengthM))
            \div 1000000

\* a wake that speeds the wind up: the loss of src counted negative
WakeGain(wake_strength, target, src, direction_deg) ==
    LET u == UnitVectorFromDirectionDeg(direction_deg)
        dx == target.x_m - src.x_m
        dy == target.y_m - src.y_m
        downwind == dx * u[1] + dy * u[2]
        crosswind == Abs(dy * u[1] - dx * u[2]) \div 1000
    IN IF src.turbine_id = target.turbine_id \/ downwind <= 0 THEN 0
       ELSE 0 - (wake_strength
                   * ExpNeg(crosswind * crosswind,
                            2 * CrosswindSigmaM * CrosswindSigmaM)
                   * ExpNeg(downwind \div 1000, DecayLengthM))
                \div 1000000

\* loss = wake_strength * cross_factor * dist_factor of one src, 0 when the
\* loop skips it (src is the target, or downwind <= 0)
WakeLoss(wake_strength, target, src, direction_deg) ==
    LET u == UnitVectorFromDirectionDeg(direction_deg)
        dx == target.x_m - src.x_m
        dy == target.y_m - src.y_m
        downwind == dx * u[1] + dy * u[2]
        crosswind == Abs(dy * u[1] - dx * u[2]) \div 1000
    IN IF src.turbine_id = target.turbine_id \/ downwind <= 0 THEN 0
       ELSE (wake_strength
               * ExpNeg(crosswind * crosswind,
                        2 * CrosswindSigmaM * CrosswindSigmaM)
               * ExpNeg(downwind \div 1000, DecayLengthM))
            \div 1000000

RECURSIVE TotalFactor(_, _, _, _, _)
\* total_factor after the loop over turbines[i..], in list order
TotalFactor(wake_strength, target, turbines, direction_deg, i) ==
    IF i > Len(turbines) THEN 1000
    ELSE (TotalFactor(wake_strength, target, turbines, direction_deg, i + 1)
            * (1000 - WakeLoss(wake_strength, target, turbines[i],
                               direction_deg)))
         \div 1000

\* v_eff = max(0.0, v * total_factor)
EffectiveSpeed(wake_strength, free_speed, direction_deg, target, turbines) ==
    LET v_eff == (free_speed * TotalFactor(wake_strength, target, turbines,
                                           direction_deg, 1)) \div 1000
    IN IF v_eff > 0 THEN v_eff ELSE 0

\* WakeModel.effective_speed called for each target of a grid farm, each
\* sub-farm holding the target, and the wake strengths main() and the
\* default use.
WakeStrengths == {120, 150, 250}
WakeFreeSpeeds == {0, 8000, 12500}
GridFarm == MakeGridFarm(GridRows, GridCols, SpacingM)

\* the turbines of farm whose index is in keep, in farm order
SubFarm(farm, keep) == Pick(farm, keep, 1)

CallEffectiveSpeed ==
    /\ last.op = "init"
    /\ \E strength \in WakeStrengths, v \in WakeFreeSpeeds,
          dir \in WakeDirections, t \in DOMAIN GridFarm,
          keep \in SUBSET DOMAIN GridFarm :
          /\ t \in keep
          /\ last' = ModelCall("WakeModel.effective_speed",
                               <<strength, v, dir, t, keep>>,
                               EffectiveSpeed(strength, v, dir, GridFarm[t],
                                              SubFarm(GridFarm, keep)))
    /\ UNCHANGED <<bronze, silver, hourly_energy, farm_kpis, store, exists,
                   pending, ingested, wind>>

SpecWake == Init /\ [][CallEffectiveSpeed]_vars

\* TelemetryGenerator.generate with inject_issues=True for one time step
\* of a farm of one or two turbines at rated wind speed, the draws of the
\* rng on and next to the edges of the three bands.
DrawValues == {0, 19, 20, 39, 40, 54, 55}
DrawStreams == [1..3 -> DrawValues]
InjectFarmSizes == {1, 2}

CallGenerate ==
    /\ last.op = "init"
    /\ \E n \in InjectFarmSizes, stream \in DrawStreams :
          last' = ModelCall("TelemetryGenerator.generate", <<n, stream>>,
                            GenerateLoop(n, RatedMps, stream, 1, 1, <<>>))
    /\ UNCHANGED <<bronze, silver, hourly_energy, farm_kpis, store, exists,
                   pending, ingested, wind>>

SpecInject == Init /\ [][CallGenerate]_vars

\* Two WindField instances built with the same seed, each called up to
\* MaxCalls times at two times of day and two turbine positions.
MaxCalls == 3
WindSeeds == {DefaultSeed, 7}
WindTimes == {0, 21600}
WindPositions == {<<0, 0>>, <<600, 600>>}

InitWind ==
    /\ InitLake
    /\ \E seed \in WindSeeds :
          wind = [i \in WindInstances |-> NewWindField(seed)]

CallGetWind ==
    /\ \E i \in WindInstances, t \in WindTimes, at \in WindPositions :
          /\ Len(wind[i].calls) < MaxCalls
          /\ wind' = WindAfterCall(i, t, at[1], at[2])
    /\ UNCHANGED <<bronze, silver, hourly_energy, farm_kpis, store, exists,
                   last, pending, ingested>>

SpecWind == InitWind /\ [][CallGetWind]_vars

\* One generated farm-hour through the pipeline: farms of several sizes at
\* several wind speeds, one row hit by each kind of injected issue.
KpiFarmSizes == {1, 30, 31}
KpiWindSpeeds == {2, 9, 12, 25}

KpiScenario ==
    /\ last.op = "init"
    /\ \E run \in SimRunIds, n \in KpiFarmSizes, v \in KpiWindSpeeds,
          kind \in IssueKinds :
          WriteHourlyChunks(GenerateFarm(run, n, v, kind))

KpiSilver == last.op = "write_hourly_chunks" /\ SilverRunOk

KpiFarmKpis == last.op = "SilverJob.run" /\ GoldOk("farm_kpis")

NextKpi == KpiScenario \/ KpiSilver \/ KpiFarmKpis

SpecKpi == Init /\ [][NextKpi]_vars

\* main(): two scenarios of the same farm and time range, then the jobs.
NextMain == MainScenario \/ MainSilver \/ MainHourlyEnergy \/ MainFarmKpis

SpecMain == Init /\ [][NextMain]_vars

(***************************************************************************)
(* Properties.                                                             *)
(***************************************************************************)
SilverProcessed == LoadSet(SilverStateName)
SilverRows == ReadDataset(silver)
BronzeRows == ReadDataset(bronze)

\* this step is a SilverJob.run that returned normally
SilverReturned == last'.op = "SilverJob.run" /\ last'.err = "ok"
\* the state is the one a SilverJob.run that returned normally left
AfterSilverReturned == last.op = "SilverJob.run" /\ last.err = "ok"

\* C1: a SilverJob.run that directly follows a successful SilverJob.run (no
\* Bronze ingest in between) writes zero curated rows and leaves the
\* persisted curation processed-set as the first run left it.
C1_SecondRunIsNoOp ==
    [][(AfterSilverReturned /\ SilverReturned)
          => (last'.written = 0 /\ silver' = silver /\ store' = store)]_vars

\* C2: every bucket key in the curation processed-set is fully processed:
\* each Bronze row of that bucket has a Silver row with the same
\* (event_time, farm_id, turbine_id).
C2_ProcessedBucketsAreInSilver ==
    \A i \in DOMAIN BronzeRows :
        ProcessKey(BronzeRows[i]) \in SilverProcessed
            => \E j \in DOMAIN SilverRows :
                   DedupKey(SilverRows[j]) = DedupKey(BronzeRows[i])

\* this step is a job run that returned normally
JobReturned ==
    /\ last'.op \in {"SilverJob.run", "GoldJob.run_hourly_energy",
                     "GoldJob.run_farm_kpis"}
    /\ last'.err = "ok"

\* C3: a job run that returns normally keeps every row that earlier runs
\* of its stage persisted: the rows of Silver and of each Gold rollup
\* before the run are still there after it.
C3_RunsKeepEarlierRows ==
    [][JobReturned
          => /\ BagOfDataset(silver) \sqsubseteq BagOfDataset(silver')
             /\ BagOfDataset(hourly_energy) \sqsubseteq BagOfDataset(hourly_energy')
             /\ BagOfDataset(farm_kpis) \sqsubseteq BagOfDataset(farm_kpis')]_vars

\* C4: when the table write of a job fails (the call ends in OSError) the
\* persisted processed-sets are what they were before the run.
C4_FailedWriteKeepsProcessedSets ==
    [][last'.err = "OSError" => store' = store]_vars

\* a Gold write failed after completing some file while an earlier Silver
\* failure that had completed some file is still not retried
C4_Witness ==
    /\ last.err = "OSError"
    /\ last.op \in {"GoldJob.run_hourly_energy", "GoldJob.run_farm_kpis"}
    /\ last.written > 0
    /\ pending.active
    /\ pending.partial > 0
    /\ SilverProcessed # {}

RunsIn(ds) == {r.sim_run_id : r \in Range(ReadDataset(ds))}

\* C5: once main() has ingested both scenarios and run SilverJob.run and
\* GoldJob.run_hourly_energy, the Gold hourly-energy dataset has rows of
\* both run identifiers.
C5_GoldHasBothRuns ==
    (last.op = "GoldJob.run_hourly_energy" /\ last.err = "ok")
        => RunsIn(hourly_energy) = SimRunIds

\* the telemetry columns of a curated row
Raw(r) ==
    [c \in DOMAIN r \ {"is_duplicate", "has_range_violation",
                       "range_violation_fields"} |-> r[c]]

\* C6: of the unprocessed rows one SilverJob.run curates, among those that
\* share (event_time, farm_id, turbine_id) exactly one is in Silver after
\* the run, and none of the others arrived (was stamped) before it.
C6_EarliestArrivalSurvives ==
    [][(SilverReturned /\ last'.written > 0)
          => LET df_new == SilverNew(bronze, SilverProcessed)
                 after == ReadDataset(silver')
             IN \A i \in DOMAIN df_new :
                   LET same == {r \in Range(df_new) :
                                   DedupKey(r) = DedupKey(df_new[i])}
                       kept == {j \in DOMAIN after : Raw(after[j]) \in same}
                   IN /\ Cardinality(kept) = 1
                      /\ \A j \in kept, r \in same :
                            after[j].ingest_time <= r.ingest_time]_vars

\* C7: after a SilverJob.run that returned normally, the persisted
\* processed-set holds the bucket key of every Bronze row that the
\* processed-set did not cover when the run started.
C7_NewBucketsAreRecorded ==
    [][SilverReturned
          => ProcessKeys(SilverNew(bronze, SilverProcessed))
                 \subseteq LoadFrom(store', SilverStateName)]_vars

\* C8: when a SilverJob.run failed in or after its table write and the
\* next run succeeds with Bronze unchanged, Silver is exactly the dataset
\* a single successful run would have left: nothing is persisted twice.
C8_RetryEqualsSingleRun == pending.retried => silver = pending.silver

\* a retry succeeded after a failure that had completed some files only
C8_Witness ==
    /\ pending.retried
    /\ pending.partial > 0
    /\ pending.partial < last.written

\* C9: every row of every dataframe a successful Bronze write was given
\* is in Bronze, as many times as it was written.
C9_BronzeKeepsEveryRow == ingested \sqsubseteq BagOfDataset(bronze)

\* two writes have put files into the same partition
C9_Witness ==
    \E p, q \in DOMAIN bronze :
        p # q /\ SubSeq(p, 1, Len(p) - 1) = SubSeq(q, 1, Len(q) - 1)

\* C10: a Bronze write given an empty dataframe or one that lacks a
\* required column raises an error and leaves Bronze as it was.
C10_BadInputPersistsNothing ==
    [][(last'.op \in {"write", "write_hourly_chunks"} /\ ~last'.wellformed)
          => (last'.err # "ok" /\ bronze' = bronze)]_vars

\* a dataframe lacking a column was refused when Bronze already held rows
C10_Witness ==
    /\ last.op = "write_hourly_chunks"
    /\ ~last.wellformed
    /\ last.err = "ValueError"
    /\ bronze # EmptyDataset

\* the operation of the call this step makes
StepOp == last'.op

\* every Bronze row's bucket key is in the curation processed-set
SilverAllProcessed ==
    \A r \in Range(BronzeRows) : ProcessKey(NormalizeSilver(r)) \in SilverProcessed

\* every Silver row's bucket key is in the rollup's processed-set
GoldAllProcessed(rollup) ==
    \A r \in Range(SilverRows) : ProcessKey(r) \in LoadSet(GoldStateName(rollup))

\* the call raised nothing, wrote no table row and saved no processed-set
NoOpStep ==
    /\ last'.err = "ok"
    /\ last'.written = 0
    /\ silver' = silver
    /\ hourly_energy' = hourly_energy
    /\ farm_kpis' = farm_kpis
    /\ store' = store

ChangedRows(before, after) ==
    UNION {Range(after[p]) :
              p \in {q \in DOMAIN after :
                        q \notin DOMAIN before \/ after[q] # before[q]}}

\* a run of the rollup: every row it wrote has a bucket key that was not in
\* the rollup's processed-set; the set grows by keys of written rows only,
\* and when the run returns by exactly those keys
GoldRunExtends(rollup, before, after) ==
    LET name == GoldStateName(rollup)
    IN StepOp = GoldOp(rollup)
       => /\ last'.keys \cap LoadSet(name) = {}
          /\ \A r \in ChangedRows(before, after) :
                ProcessKey(r) \notin LoadSet(name)
          /\ LoadFrom(store', name) \subseteq LoadSet(name) \cup last'.keys
          /\ last'.err = "ok"
                => LoadFrom(store', name) = LoadSet(name) \cup last'.keys

\* C12: a Gold rollup run writes no row whose bucket key is already in the
\* rollup's processed-set, and after a run that returns the persisted set
\* is the previous set united with exactly the keys of the rows written.
C12_GoldWritesOnlyNewBuckets ==
    [][/\ GoldRunExtends("hourly_energy", hourly_energy, hourly_energy')
       /\ GoldRunExtends("farm_kpis", farm_kpis, farm_kpis')]_vars

\* a farm-KPI run has written rows of a new bucket while its processed-set
\* already held another bucket
C12_Witness ==
    /\ last.op = "GoldJob.run_farm_kpis"
    /\ last.err = "ok"
    /\ last.written > 0
    /\ LoadSet(GoldStateName("farm_kpis")) \ last.keys # {}

HourlyEnergyRows == ReadDataset(hourly_energy)
FarmKpiRows == ReadDataset(farm_kpis)

\* the key of an hourly-energy row: (sim_run_id, farm_id, turbine_id, hour)
HourlyEnergyKey(r) == <<r.sim_run_id, r.farm_id, r.turbine_id, r.event_time>>

\* C13: once a rollup has returned, every bucket (sim_run_id, farm_id,
\* hour) that the curation stage has curated has exactly one farm-KPI row
\* and at least one hourly-energy row, and no two hourly-energy rows share
\* (sim_run_id, farm_id, turbine_id, hour): H curated hours give H rows.
C13_OneGoldRowPerCuratedHour ==
    /\ (last.op = "GoldJob.run_hourly_energy" /\ last.err = "ok")
          => /\ \A k \in SilverProcessed :
                   \E j \in DOMAIN HourlyEnergyRows :
                       ProcessKey(HourlyEnergyRows[j]) = k
             /\ \A i, j \in DOMAIN HourlyEnergyRows :
                   HourlyEnergyKey(HourlyEnergyRows[i])
                       = HourlyEnergyKey(HourlyEnergyRows[j]) => i = j
    /\ (last.op = "GoldJob.run_farm_kpis" /\ last.err = "ok")
          => \A k \in SilverProcessed :
                Cardinality({j \in DOMAIN FarmKpiRows :
                                ProcessKey(FarmKpiRows[j]) = k}) = 1

\* C17: after SilverJob.run was stopped inside save_set, load_set of the
\* name raises nothing and returns the set as it was before the save or
\* the complete new set.
C17_SaveSetIsAtomic ==
    [][(StepOp = "SilverJob.run" /\ last'.err = "Stopped")
          => /\ LoadError(store', SilverStateName) = "ok"
             /\ LoadFrom(store', SilverStateName)
                   \in {LoadSet(SilverStateName),
                        LoadSet(SilverStateName) \cup last'.keys}]_vars

\* the three incremental stages, the operation and the processed-set of each
Stages == {"silver", "hourly_energy", "farm_kpis"}

StageOp(stage) == IF stage = "silver" THEN "SilverJob.run" ELSE GoldOp(stage)

StageStateName(stage) ==
    IF stage = "silver" THEN SilverStateName ELSE GoldStateName(stage)

\* C16: the three stages use pairwise distinct processed-set names, and a
\* run of one stage leaves the persisted processed-set of each other stage
\* as it was.
C16_StagesKeepEachOthersProcessedSets ==
    [][\A a, b \in Stages :
          a # b =>
             /\ StageStateName(a) # StageStateName(b)
             /\ StepOp = StageOp(a)
                   => LoadFrom(store', StageStateName(b))
                          = LoadFrom(store, StageStateName(b))]_vars

\* a farm-KPI run has just saved its keys while the sets of the curation
\* and of the hourly-energy rollup hold keys of their own
C16_Witness ==
    /\ last.op = GoldOp("farm_kpis")
    /\ last.err = "ok"
    /\ last.keys # {}
    /\ last.keys \subseteq LoadSet(GoldStateName("farm_kpis"))
    /\ LoadSet(SilverStateName) # {}
    /\ LoadSet(GoldStateName("hourly_energy")) # {}

\* C19: a Silver row has has_range_violation exactly if one of the five
\* measured values is NaN, below its low bound or above its high bound,
\* and range_violation_fields lists exactly the violating fields in the
\* order wind_speed_mps, wind_dir_deg, rotor_speed_rpm, yaw_deg, power_kw.
C19_RangeFlagsMatchViolations ==
    \A i \in DOMAIN SilverRows :
        LET r == SilverRows[i]
            listed == (IF r.wind_speed_mps = NaN \/ r.wind_speed_mps < 0
                          \/ r.wind_speed_mps > 60
                       THEN <<"wind_speed_mps">> ELSE <<>>)
                   \o (IF r.wind_dir_deg = NaN \/ r.wind_dir_deg < 0
                          \/ r.wind_dir_deg > 360
                       THEN <<"wind_dir_deg">> ELSE <<>>)
                   \o (IF r.rotor_speed_rpm = NaN \/ r.rotor_speed_rpm < 0
                          \/ r.rotor_speed_rpm > 30
                       THEN <<"rotor_speed_rpm">> ELSE <<>>)
                   \o (IF r.yaw_deg = NaN \/ r.yaw_deg < 0 \/ r.yaw_deg > 360
                       THEN <<"yaw_deg">> ELSE <<>>)
                   \o (IF r.power_kw = NaN \/ r.power_kw < 0
                          \/ r.power_kw > 10000
                       THEN <<"power_kw">> ELSE <<>>)
        IN /\ r.range_violation_fields = listed
           /\ r.has_range_violation <=> listed # <<>>

\* Silver holds a row with wind_speed_mps = -5.0 and a missing power value,
\* every other value on its bound
C19_Witness ==
    \E i \in DOMAIN SilverRows :
        /\ SilverRows[i].wind_speed_mps = 0 - 5
        /\ SilverRows[i].power_kw = NaN
        /\ SilverRows[i].wind_dir_deg = 360
        /\ SilverRows[i].rotor_speed_rpm = 30
        /\ SilverRows[i].yaw_deg = 0
        /\ SilverRows[i].has_range_violation
        /\ SilverRows[i].range_violation_fields
              = <<"wind_speed_mps", "power_kw">>

\* C20: SilverJob.run over Bronze records with missing, out-of-range or
\* duplicate values raises no error, and of every unprocessed Bronze record
\* the first unprocessed record with its (event_time, farm_id, turbine_id)
\* is in Silver after the run, flagged exactly if it violates a range.
C20_QualityIssuesDropNoRecord ==
    [][(StepOp = "SilverJob.run" /\ BronzeRows # <<>>)
          => /\ last'.err = "ok"
             /\ LET df_new == SilverNew(bronze, SilverProcessed)
                    after == ReadDataset(silver')
                IN \A i \in DOMAIN df_new :
                      LET first == CHOOSE j \in 1..i :
                                      /\ DedupKey(df_new[j]) = DedupKey(df_new[i])
                                      /\ \A k \in 1..(j - 1) :
                                            DedupKey(df_new[k])
                                                # DedupKey(df_new[i])
                      IN \E j \in DOMAIN after :
                            /\ Raw(after[j]) = df_new[first]
                            /\ after[j].has_range_violation
                                  <=> ViolationFields(df_new[first]) # <<>>]_vars

\* a run has kept a record with a missing and an out-of-range value and
\* dropped the valid record that followed it with the same key
C20_Witness ==
    /\ last.op = "SilverJob.run"
    /\ last.err = "ok"
    /\ Len(BronzeRows) = 2
    /\ Len(SilverRows) = 1
    /\ SilverRows[1].wind_speed_mps = NaN
    /\ SilverRows[1].power_kw = 99999
    /\ SilverRows[1].has_range_violation

\* the location a stage reads
StageInput(stage) == IF stage = "silver" THEN "bronze" ELSE "silver"

\* C18: a run of a stage whose input location is absent raises
\* FileNotFoundError, writes no row, creates no directory, changes no
\* table of Silver or Gold and no processed-set.
C18_MissingUpstreamFailsFirst ==
    [][\A stage \in Stages :
          (StepOp = StageOp(stage) /\ ~PathExists(StageInput(stage)))
             => /\ last'.err = "FileNotFoundError"
                /\ last'.written = 0
                /\ silver' = silver
                /\ hourly_energy' = hourly_energy
                /\ farm_kpis' = farm_kpis
                /\ store' = store
                /\ exists' = exists]_vars

\* a Gold rollup has raised for the absent Silver location while Bronze
\* holds rows
C18_Witness ==
    /\ last.op \in {GoldOp("hourly_energy"), GoldOp("farm_kpis")}
    /\ last.err = "FileNotFoundError"
    /\ ~PathExists("silver")
    /\ BronzeRows # <<>>

\* C21: PowerCurve.power_kw returns (0, CUT_OUT) at or above cut-out,
\* (0, STOPPED) below cut-in, (rated power * ((v - cut_in) / (rated -
\* cut_in))^3, RUNNING) from cut-in to below rated speed, the power being a
\* whole number of kW rounded down, and (rated power, RUNNING) from rated
\* speed to below cut-out.
C21_PowerCurveRegions ==
    last.op = "PowerCurve.power_kw"
       => LET v == last.args[1]
              rated == last.args[2]
              power == last.result.power_kw
              status == last.result.status
          IN /\ v >= 25 => (power = 0 /\ status = "CUT_OUT")
             /\ v < 3 => (power = 0 /\ status = "STOPPED")
             /\ (3 <= v /\ v < 12)
                   => /\ status = "RUNNING"
                      /\ power * 729 <= rated * (v - 3) * (v - 3) * (v - 3)
                      /\ rated * (v - 3) * (v - 3) * (v - 3)
                            < (power + 1) * 729
             /\ (12 <= v /\ v < 25) => (power = rated /\ status = "RUNNING")

\* the call at exactly the cut-in speed returned RUNNING with power 0
C21_Witness ==
    /\ last.op = "PowerCurve.power_kw"
    /\ last.args[1] = CutInMps
    /\ last.result = [power_kw |-> 0, status |-> "RUNNING"]

\* C22: the effective speed a call returned is not exceeded by the
\* effective speed for the same target, free-stream speed and direction
\* with any one further turbine of the farm in the turbine list.
C22_MoreSourcesNeverFaster ==
    last.op = "WakeModel.effective_speed"
       => LET strength == last.args[1]
              v == last.args[2]
              dir == last.args[3]
              t == last.args[4]
              keep == last.args[5]
          IN \A e \in DOMAIN GridFarm \ keep :
                EffectiveSpeed(strength, v, dir, GridFarm[t],
                               SubFarm(GridFarm, keep \cup {e}))
                    <= last.result

\* a call with one upwind turbine returned less than the free-stream speed,
\* and a second turbine upwind of the target is still outside the list
C22_Witness ==
    /\ last.op = "WakeModel.effective_speed"
    /\ last.result < last.args[2]
    /\ Cardinality(last.args[5]) = 2
    /\ \E e \in DOMAIN GridFarm \ last.args[5] :
          WakeLoss(last.args[1], GridFarm[last.args[4]], GridFarm[e],
                   last.args[3]) > 0

\* the downwind distance of target from src, along the wind unit vector
Downwind(target, src, direction_deg) ==
    (target.x_m - src.x_m) * UnitVectorFromDirectionDeg(direction_deg)[1]
    + (target.y_m - src.y_m) * UnitVectorFromDirectionDeg(direction_deg)[2]

\* C23: a call in which every other turbine of the list has a downwind
\* distance <= 0 returned the free-stream speed itself.
C23_NoUpstreamGivesFreeSpeed ==
    (/\ last.op = "WakeModel.effective_speed"
     /\ \A e \in last.args[5] \ {last.args[4]} :
           Downwind(GridFarm[last.args[4]], GridFarm[e], last.args[3]) <= 0)
       => last.result = last.args[2]

\* a call for a target with two other turbines in the list, none of them
\* upwind, at a free-stream speed above zero
C23_Witness ==
    /\ last.op = "WakeModel.effective_speed"
    /\ last.args[2] > 0
    /\ Cardinality(last.args[5]) = 3
    /\ \A e \in last.args[5] \ {last.args[4]} :
          Downwind(GridFarm[last.args[4]], GridFarm[e], last.args[3]) <= 0
    /\ last.result = last.args[2]

\* C24: generate has taken one draw per generated row, and each row
\* carries at most one of the three anomalies: the one of the band its
\* draw lies in (missing wind below 0.002, wind of -5.0 from 0.002 to below
\* 0.004, power of 99999.0 from 0.004 to below 0.0055), none otherwise.
C24_OneDrawOneAnomaly ==
    last.op = "TelemetryGenerator.generate"
       => LET rows == last.result.rows
              stream == last.args[2]
          IN /\ last.result.pos - 1 = Len(rows)
             /\ \A i \in DOMAIN rows :
                   LET r == stream[i]
                       missing == rows[i].wind_speed_mps = NaN
                       negative == rows[i].wind_speed_mps = 0 - 5
                       spike == rows[i].power_kw = 99999
                   IN /\ missing <=> r < 20
                      /\ negative <=> (20 <= r /\ r < 40)
                      /\ spike <=> (40 <= r /\ r < 55)
                      /\ ~(missing /\ spike)
                      /\ ~(negative /\ spike)

\* two rows were generated, the first with a power spike from a draw on
\* the low edge of its band, the second untouched by a draw on the high edge
C24_Witness ==
    /\ last.op = "TelemetryGenerator.generate"
    /\ Len(last.result.rows) = 2
    /\ last.args[2][1] = 40
    /\ last.args[2][2] = 55
    /\ last.result.rows[1].power_kw = 99999
    /\ last.result.rows[1].wind_speed_mps = RatedMps
    /\ last.result.rows[2].power_kw = RatedPowerKw

\* C25: two WindField instances built with the same seed that were given
\* the same calls up to the k-th returned the same (speed, direction) for
\* the k-th.
C25_SameSeedSameCallsSameWind ==
    \A i, j \in WindInstances :
        \A k \in 1..Len(wind[i].calls) :
            (/\ k <= Len(wind[j].calls)
             /\ SubSeq(wind[i].calls, 1, k) = SubSeq(wind[j].calls, 1, k))
               => wind[i].outs[k] = wind[j].outs[k]

\* both instances were given the same call three times; they agree call by
\* call, and the second result differs from the first
C25_Witness ==
    /\ Len(wind["first"].calls) = 3
    /\ wind["second"].calls = wind["first"].calls
    /\ wind["first"].calls[1] = wind["first"].calls[2]
    /\ wind["first"].outs[1] # wind["first"].outs[2]
    /\ wind["second"].outs = wind["first"].outs

\* the names in range_violation_fields of a curated row
Listed(r) == Range(r.range_violation_fields)

\* C26 as stated: in a Silver row a value equal to the low bound of its
\* range is not flagged and a value equal to the high bound is flagged.
C26_HighBoundIsFlagged ==
    \A i \in DOMAIN SilverRows :
        \A k \in DOMAIN TelemetryConstraints :
            LET c == TelemetryConstraints[k]
                r == SilverRows[i]
            IN /\ r[c.col] = c.lo => c.col \notin Listed(r)
               /\ r[c.col] = c.hi => c.col \in Listed(r)

\* C26 amended: each range includes both of its bounds: in a Silver row a
\* value equal to the low bound or to the high bound is not flagged.
C26_BothBoundsAreInRange ==
    \A i \in DOMAIN SilverRows :
        \A k \in DOMAIN TelemetryConstraints :
            LET c == TelemetryConstraints[k]
                r == SilverRows[i]
            IN (r[c.col] = c.lo \/ r[c.col] = c.hi) => c.col \notin Listed(r)

\* Silver holds a row with wind_dir_deg = 360.0 and wind_speed_mps = 60.0,
\* the other values on a bound too, and without a range violation
C26_Witness ==
    \E i \in DOMAIN SilverRows :
        /\ SilverRows[i].wind_dir_deg = 360
        /\ SilverRows[i].wind_speed_mps = 60
        /\ SilverRows[i].rotor_speed_rpm = 30
        /\ SilverRows[i].yaw_deg = 0
        /\ SilverRows[i].power_kw = 10000
        /\ ~SilverRows[i].has_range_violation
        /\ SilverRows[i].range_violation_fields = <<>>

\* the identity of a record across simulation runs
RunKey(r) == <<r.sim_run_id, r.farm_id, r.turbine_id, r.event_time>>

\* Silver holds at most one row per (sim_run_id, farm_id, turbine_id,
\* event_time)
SilverUniquePerRun ==
    \A i, j \in DOMAIN SilverRows :
        RunKey(SilverRows[i]) = RunKey(SilverRows[j]) => i = j

\* a returned SilverJob.run leaves, for every unprocessed Bronze row it
\* curated, a Silver row of the same run, farm, turbine and instant
NoRunSuppressed ==
    [][SilverReturned
          => LET df_new == SilverNew(bronze, SilverProcessed)
                 after == ReadDataset(silver')
             IN \A i \in DOMAIN df_new :
                    \E j \in DOMAIN after :
                        RunKey(after[j]) = RunKey(df_new[i])]_vars

\* C27: after any sequence of Bronze ingests and SilverJob.run calls Silver
\* has at most one row per (sim_run_id, farm_id, turbine_id, event_time),
\* and no row of one simulation run is dropped as a duplicate of a row of
\* another run.
C27_OneRowPerRunKeyNoneSuppressed == []SilverUniquePerRun /\ NoRunSuppressed

\* C14: every farm-KPI row with an estimated turbine count above zero has
\* a capacity factor in [0, 1].
C14_CapacityFactorInUnitRange ==
    \A i \in DOMAIN FarmKpiRows :
        LET r == FarmKpiRows[i]
        IN r.n_turbines_est > 0
              => /\ r.capacity_factor.kind = "finite"
                 /\ 0 <= r.capacity_factor.num
                 /\ r.capacity_factor.num <= r.capacity_factor.den

\* C15: a farm-KPI row with an estimated turbine count of zero has a
\* capacity factor that is no finite number (it is inf or NaN).
C15_ZeroTurbinesGiveNoFiniteFactor ==
    \A i \in DOMAIN FarmKpiRows :
        FarmKpiRows[i].n_turbines_est = 0
            => FarmKpiRows[i].capacity_factor.kind # "finite"

\* a farm-hour of 30 rows (estimate round(0.5) = 0) with energy above zero
\* and one of a single row without energy have been written
C15_Witness ==
    \E i \in DOMAIN FarmKpiRows :
        /\ FarmKpiRows[i].n_turbines_est = 0
        /\ FarmKpiRows[i].total_rows = 30
        /\ FarmKpiRows[i].farm_energy_kws > 0

====
